---- MODULE Spec2Model ----
(***************************************************************************)
(* Boots: a bootstrap-script orchestrator (src/Boots.ts, class Boots of    *)
(* lines 147-329, and the BootsScript declarations of src/unnamed/part_000).*)
(*                                                                         *)
(* One Boots instance is modelled together with the process it lives in:   *)
(* the command line (process.argv), the module table seen by require(),    *)
(* the observables go() has returned and the subscriptions made on them.   *)
(* A subscription to the observable of _runScripts owns one promise chain; *)
(* the callbacks of that chain are separate actions: the then-callback     *)
(* that calls run(), the callback run when run()'s promise resolves        *)
(* (subscriber.next), the final catch reached when it rejects, and the     *)
(* final then. A callback takes the value the promise settled with as its  *)
(* input.                                                                  *)
(***************************************************************************)
EXTENDS Integers, Sequences, FiniteSets, TLC

VARIABLES
    calls,         \* the number of calls the host program has made
    argv,          \* process.argv, fixed for the life of the process
    scriptPaths,   \* Boots.scriptPaths
    bootsScripts,  \* Boots.bootsScripts: names of the loaded units, in order
    errors,        \* Boots.errors
    ok,            \* Boots.ok
    checkModules,  \* the LoadModulesResult of the latest go() (its local)
    loadLog,       \* per go() call: the paths passed to require(), in order
    streams,       \* the observables returned by go(), in call order
    subs           \* the subscriptions made so far, in subscription order

vars == <<calls, argv, scriptPaths, bootsScripts, errors, ok, checkModules,
          loadLog, streams, subs>>

-----------------------------------------------------------------------------
(* Bounds of the model *)

MaxArgs == 3

\* The number of calls the host program makes: go(), subscribe(),
\* unsubscribe().
MaxCalls == 3

\* The number of run() calls followed, over all subscriptions.
MaxRuns == 3

-----------------------------------------------------------------------------
(* The environment: command line tokens and the module table *)

commandlineFlag == "--boots"

otherFlag == "-v"

\* The script identifiers that may appear on the command line.
Identifiers == {"a", "r", "x", "w", "u", "d"}

Tokens == {commandlineFlag, otherFlag} \cup Identifiers

\* array[searching][0]
FirstChar(tok) == IF tok \in {commandlineFlag, otherFlag} THEN "-" ELSE tok

\* Boots.baseUrl
baseUrl == "/base"

\* path.join(this.baseUrl, scriptPath)
PathJoin(base, p) == base \o "/" \o p

\* The paths for which require() returns a module instead of raising.
\*   a  loads directly            r  loads only below baseUrl
\*   x  loads directly            w  loads only below baseUrl
\*   d  loads directly            u  loads nowhere
Loadable == {"a", "x", "d", PathJoin(baseUrl, "r"), PathJoin(baseUrl, "w")}

\* A JavaScript value as far as isBootsScript looks at it.
JsValue(t, runType, hasName, name) ==
    [jsType |-> t, runType |-> runType, hasName |-> hasName, name |-> name]

\* require(path).default for a loadable path.
\*   a, r  valid units            x  run is not callable
\*   w     empty bootsScriptName  d  no default export (undefined)
DefaultExport(p) ==
    CASE p = "a" -> JsValue("object", "function", TRUE, "A")
      [] p = PathJoin(baseUrl, "r") -> JsValue("object", "function", TRUE, "R")
      [] p = "x" -> JsValue("object", "string", TRUE, "X")
      [] p = PathJoin(baseUrl, "w") -> JsValue("object", "function", TRUE, "")
      [] OTHER -> JsValue("undefined", "undefined", FALSE, "")

\* isBootsScript(o): "throws" when o is undefined (o.run of undefined),
\* otherwise the truthiness of (typeof o.run === 'function') && o.bootsScriptName
IsBootsScript(o) ==
    IF o.jsType = "undefined" THEN "throws"
    ELSE IF o.runType = "function" /\ o.hasName /\ o.name # "" THEN "true"
    ELSE "false"

-----------------------------------------------------------------------------
(* _loadScriptPaths *)

\* The while loop of _loadScriptPaths, from index `searching` (1-based).
RECURSIVE ScanFrom(_, _)
ScanFrom(array, searching) ==
    IF searching <= Len(array) /\ FirstChar(array[searching]) # "-"
    THEN <<array[searching]>> \o ScanFrom(array, searching + 1)
    ELSE <<>>

\* The forEach of _loadScriptPaths, from index `index` (1-based).
RECURSIVE ScanArgs(_, _)
ScanArgs(array, index) ==
    IF index > Len(array) THEN <<>>
    ELSE (IF array[index] = commandlineFlag
          THEN ScanFrom(array, index + 1) ELSE <<>>)
         \o ScanArgs(array, index + 1)

LoadScriptPaths(array) == ScanArgs(array, 1)

-----------------------------------------------------------------------------
(* _loadModules *)

\* The state of one _loadModules call: its result object, the units pushed
\* to this.bootsScripts and the require() calls made.
EmptyLoad(scripts) ==
    [ok |-> TRUE, cantResolve |-> <<>>, wrongType |-> <<>>,
     scripts |-> scripts, loads |-> <<>>]

\* LoadOne with the else branch of the shape check forgetting
\* result.ok = false.
LoadOneWrongTypeKeepsOk(acc, scriptPath) ==
    LET direct == scriptPath \in Loadable
        joined == PathJoin(baseUrl, scriptPath)
        path   == IF direct THEN scriptPath ELSE joined
        tried  == IF direct THEN <<scriptPath>> ELSE <<scriptPath, joined>>
        loaded == path \in Loadable
        check  == IF loaded THEN IsBootsScript(DefaultExport(path)) ELSE "throws"
        acc1   == [acc EXCEPT !.loads = @ \o tried]
    IN  CASE check = "true" ->
               [acc1 EXCEPT !.scripts = Append(@, DefaultExport(path).name)]
          [] check = "false" ->
               [acc1 EXCEPT !.wrongType = Append(@, path)]
          [] OTHER ->
               [acc1 EXCEPT !.ok = FALSE, !.cantResolve = Append(@, path)]

\* LoadOne pushing the loaded value to this.bootsScripts before the shape
\* check instead of after it.
LoadOnePushBeforeCheck(acc, scriptPath) ==
    LET direct == scriptPath \in Loadable
        joined == PathJoin(baseUrl, scriptPath)
        path   == IF direct THEN scriptPath ELSE joined
        tried  == IF direct THEN <<scriptPath>> ELSE <<scriptPath, joined>>
        loaded == path \in Loadable
        check  == IF loaded THEN IsBootsScript(DefaultExport(path)) ELSE "throws"
        acc1   == [acc EXCEPT !.loads = @ \o tried]
        acc2   == IF loaded
                  THEN [acc1 EXCEPT !.scripts = Append(@, DefaultExport(path).name)]
                  ELSE acc1
    IN  CASE check = "true" -> acc2
          [] check = "false" ->
               [acc2 EXCEPT !.ok = FALSE, !.wrongType = Append(@, path)]
          [] OTHER ->
               [acc2 EXCEPT !.ok = FALSE, !.cantResolve = Append(@, path)]

\* The body of the forEach callback for one scriptPath.
\* An optional array that is still undefined is modelled as <<>>: the code
\* defines it at its first push, so it is defined iff it is non-empty.
LoadOne(acc, scriptPath) ==
    LET direct == scriptPath \in Loadable
        joined == PathJoin(baseUrl, scriptPath)
        path   == IF direct THEN scriptPath ELSE joined
        tried  == IF direct THEN <<scriptPath>> ELSE <<scriptPath, joined>>
        loaded == path \in Loadable
        check  == IF loaded THEN IsBootsScript(DefaultExport(path)) ELSE "throws"
        acc1   == [acc EXCEPT !.loads = @ \o tried]
    IN  CASE check = "true" ->
               [acc1 EXCEPT !.scripts = Append(@, DefaultExport(path).name)]
          [] check = "false" ->
               [acc1 EXCEPT !.ok = FALSE, !.wrongType = Append(@, path)]
          [] OTHER ->
               [acc1 EXCEPT !.ok = FALSE, !.cantResolve = Append(@, path)]

\* LoadFrom giving up at the first path that fails.
RECURSIVE LoadFromFailFast(_, _, _)
LoadFromFailFast(acc, paths, index) ==
    IF index > Len(paths) \/ ~acc.ok THEN acc
    ELSE LoadFromFailFast(LoadOne(acc, paths[index]), paths, index + 1)

RECURSIVE LoadFrom(_, _, _)
LoadFrom(acc, paths, index) ==
    IF index > Len(paths) THEN acc
    ELSE LoadFrom(LoadOne(acc, paths[index]), paths, index + 1)

\* _loadModules(scriptPaths) on an instance whose bootsScripts is `scripts`.
LoadModules(scripts, paths) == LoadFrom(EmptyLoad(scripts), paths, 1)

NoResult == [ok |-> TRUE, cantResolve |-> <<>>, wrongType |-> <<>>]

-----------------------------------------------------------------------------
(* The constructor *)

Init ==
    /\ calls = 0
    /\ argv \in UNION {[1..n -> Tokens] : n \in 0..MaxArgs}
    /\ scriptPaths = <<>>
    /\ ok = TRUE
    /\ bootsScripts = <<>>
    /\ errors = <<>>
    /\ checkModules = NoResult
    /\ loadLog = <<>>
    /\ streams = <<>>
    /\ subs = <<>>

-----------------------------------------------------------------------------
(* go() *)

NoPathsMessage == "Boots Error: No script paths were specified."

LoadErrorMessage == "Boots Error: At least one error occurred while attempting to load the BootsScript modules. Use Boots.logErrors() to view more information."

CantResolveError(paths) == [about |-> "cantResolve", paths |-> paths]

WrongTypeError(paths) == [about |-> "wrongType", paths |-> paths]

\* LoadErrors with one string for every path of the report.
LoadErrorsPerPath(res) ==
    [i \in 1..Len(res.cantResolve) |-> CantResolveError(<<res.cantResolve[i]>>)]
    \o [i \in 1..Len(res.wrongType) |-> WrongTypeError(<<res.wrongType[i]>>)]

\* The strings go() pushes to this.errors for a failed LoadModulesResult.
LoadErrors(res) ==
    (IF res.cantResolve # <<>> THEN <<CantResolveError(res.cantResolve)>> ELSE <<>>)
    \o (IF res.wrongType # <<>> THEN <<WrongTypeError(res.wrongType)>> ELSE <<>>)

\* GoResult with the unit list emptied before the modules are loaded.
GoResultFreshList(array, scripts) ==
    LET paths == LoadScriptPaths(array) IN
    IF Len(paths) < 1
    THEN [paths |-> paths, loaded |-> FALSE, load |-> EmptyLoad(<<>>),
          returns |-> "throwNoPaths"]
    ELSE LET res == LoadModules(<<>>, paths) IN
         [paths |-> paths, loaded |-> TRUE, load |-> res,
          returns |-> IF res.ok THEN "runScripts" ELSE "throwLoadError"]

\* GoResult without the test for an empty path list.
GoResultNoEmptyCheck(array, scripts) ==
    LET paths == LoadScriptPaths(array)
        res == LoadModules(scripts, paths)
    IN  [paths |-> paths, loaded |-> TRUE, load |-> res,
         returns |-> IF res.ok THEN "runScripts" ELSE "throwLoadError"]

\* What one go() call comes to, on an instance whose bootsScripts is
\* `scripts`: the script paths it read, the _loadModules call it made (none
\* for an empty path list) and which observable it returns.
GoResult(array, scripts) ==
    LET paths == LoadScriptPaths(array) IN
    IF Len(paths) < 1
    THEN [paths |-> paths, loaded |-> FALSE, load |-> EmptyLoad(scripts),
          returns |-> "throwNoPaths"]
    ELSE LET res == LoadModules(scripts, paths) IN
         [paths |-> paths, loaded |-> TRUE, load |-> res,
          returns |-> IF res.ok THEN "runScripts" ELSE "throwLoadError"]

Go ==
    /\ calls < MaxCalls
    /\ calls' = calls + 1
    /\ LET r == GoResult(argv, bootsScripts) IN
       /\ scriptPaths' = r.paths
       /\ bootsScripts' = r.load.scripts
       /\ loadLog' = Append(loadLog, r.load.loads)
       /\ checkModules' =
            IF r.loaded
            THEN [ok |-> r.load.ok, cantResolve |-> r.load.cantResolve,
                  wrongType |-> r.load.wrongType]
            ELSE checkModules
       /\ ok' = IF r.returns = "runScripts" THEN ok ELSE FALSE
       /\ errors' = IF r.returns = "throwLoadError"
                    THEN errors \o LoadErrors(r.load) ELSE errors
       /\ streams' = Append(streams, r.returns)
    /\ UNCHANGED <<argv, subs>>

-----------------------------------------------------------------------------
(* Units, outcomes and what a subscriber receives *)

undefined == "undefined"

\* A BootsScriptResult, or any other value a run() may reject with.
Outcome(shape, success, scriptName, error) ==
    [shape |-> shape, success |-> success, scriptName |-> scriptName,
     error |-> error]

\* What run() of the unit named `name` may do: resolve with a successful
\* Outcome, resolve with a failed Outcome, reject with a failed Outcome
\* (as the scripts of src/examples do), reject with an Outcome naming
\* another script, or reject with a value that is no Outcome at all.
RunResults(name) ==
    { [how |-> "resolved", value |-> Outcome("result", TRUE, name, undefined)],
      [how |-> "resolved", value |-> Outcome("result", FALSE, name, "oopsie")],
      [how |-> "rejected", value |-> Outcome("result", FALSE, name, "oopsie")],
      [how |-> "rejected", value |-> Outcome("result", FALSE, "other", "oopsie")],
      [how |-> "rejected", value |-> Outcome("exception", FALSE, undefined, undefined)] }

NoValue == Outcome("none", FALSE, "", "")

\* One call of the observer: next(value), error(message) or complete().
NextEvent(value) == [ev |-> "next", value |-> value, text |-> ""]

ErrorEvent(text, value) == [ev |-> "error", value |-> value, text |-> text]

CompleteEvent == [ev |-> "complete", value |-> NoValue, text |-> ""]

\* `Boots Error: Script ${scriptName} reported the following error: ${error}`
ScriptErrorMessage(value) == "Script " \o value.scriptName \o ": " \o value.error

\* Subscriber.next / error / complete of rxjs: nothing is delivered to a
\* closed subscriber, and error and complete close it. okNow is the value
\* this.ok has when the observer's handler is called; the subscriber
\* record keeps the one seen by its error or complete handler.
Deliver(sub, event, okNow) ==
    IF sub.closed THEN sub
    ELSE [sub EXCEPT !.received = Append(@, event),
                     !.closed = (event.ev # "next"),
                     !.okSeen = IF event.ev = "next" THEN @ ELSE okNow]

-----------------------------------------------------------------------------
(* subscribe, the promise chain of _runScripts, unsubscribe *)

\* The subscriber created by subscribe(), before the subscribe function ran.
\* phase: "chain" while the chain waits for its next callback, "running"
\* while a run() is in flight, "completed" after the final then, "failed"
\* after the final catch, "thrown" for a subscriber of throwError.
\* gos: the number of go() calls made before the subscription;
\* cancelledAt: the position of the unit that was in flight when the
\* subscriber unsubscribed (0 when none was or it has not unsubscribed);
\* started: the units whose run() was called; settled: the number of run()
\* promises that have settled; okSeen: the value of this.ok when the error
\* or complete handler was called (TRUE until then).
NewSub(kind, units) ==
    [kind |-> kind, gos |-> Len(streams), units |-> units, idx |-> 0,
     phase |-> "chain", started |-> <<>>, settled |-> 0, received |-> <<>>,
     closed |-> FALSE, unsubscribed |-> FALSE, cancelledAt |-> 0,
     okSeen |-> TRUE]

\* throwError(message): the error is delivered during subscribe().
SubscribeThrow(kind) ==
    LET text == IF kind = "throwNoPaths" THEN NoPathsMessage
                ELSE LoadErrorMessage
        sub == [NewSub(kind, <<>>) EXCEPT !.phase = "thrown"]
    IN  Deliver(sub, ErrorEvent(text, NoValue), ok)

\* The subscribe function of _runScripts: reduce() builds the promise chain
\* over this.bootsScripts as it is now; no callback of the chain has run yet.
SubscribeRun(kind, units) == NewSub(kind, units)

Subscribe(i) ==
    /\ calls < MaxCalls
    /\ calls' = calls + 1
    /\ subs' = Append(subs, IF streams[i] = "runScripts"
                            THEN SubscribeRun(streams[i], bootsScripts)
                            ELSE SubscribeThrow(streams[i]))
    /\ UNCHANGED <<argv, scriptPaths, bootsScripts, errors, ok, checkModules,
                   loadLog, streams>>

\* The number of run() calls made so far, over subscriptions s..Len(subs).
RECURSIVE RunsFrom(_)
RunsFrom(s) ==
    IF s > Len(subs) THEN 0 ELSE Len(subs[s].started) + RunsFrom(s + 1)

\* MayCallRun without waiting for the previous task (run() called by
\* reduce itself instead of by the then-callback).
MayCallRunEager(sub) ==
    sub.phase \in {"chain", "running"} /\ sub.idx < Len(sub.units)

\* The chain may run the then-callback of its next task.
MayCallRun(sub) == sub.phase = "chain" /\ sub.idx < Len(sub.units)

\* The callback of promiseChain.then for the next task: currentTask.run().
CallRun(s) ==
    /\ RunsFrom(1) < MaxRuns
    /\ MayCallRun(subs[s])
    /\ subs' = [subs EXCEPT ![s].idx = @ + 1,
                            ![s].phase = "running",
                            ![s].started = Append(@, subs[s].units[subs[s].idx + 1])]
    /\ UNCHANGED <<calls, argv, scriptPaths, bootsScripts, errors, ok,
                   checkModules, loadLog, streams>>

\* The callback of currentTask.run().then, run with the value the promise
\* resolved to: subscriber.next(currentResult). The array it returns is
\* read by nobody and is left out.
OnResolved(sub, currentResult) ==
    [Deliver(sub, NextEvent(currentResult), ok) EXCEPT
        !.phase = "chain", !.settled = @ + 1]

\* OnRejected with a per-task catch that reports the error and does not
\* rethrow it, so that the chain goes on.
OnRejectedSwallow(sub, errorResult) ==
    [Deliver(sub, ErrorEvent(ScriptErrorMessage(errorResult), errorResult), FALSE)
     EXCEPT !.phase = "chain", !.settled = @ + 1]

\* OnRejected calling subscriber.error(...) before this.ok = false.
OnRejectedErrorFirst(sub, errorResult) ==
    [Deliver(sub, ErrorEvent(ScriptErrorMessage(errorResult), errorResult), ok)
     EXCEPT !.phase = "failed", !.settled = @ + 1]

\* The final catch, reached by a rejection through the rethrowing catches
\* (every later then-callback is skipped): this.ok = false has been
\* assigned when subscriber.error(...) is called.
OnRejected(sub, errorResult) ==
    [Deliver(sub, ErrorEvent(ScriptErrorMessage(errorResult), errorResult), FALSE)
     EXCEPT !.phase = "failed", !.settled = @ + 1]

\* The promise returned by run() resolves and its then-callback runs.
Resolved(s) ==
    /\ subs[s].phase = "running"
    /\ \E r \in RunResults(subs[s].units[subs[s].idx]) :
          /\ r.how = "resolved"
          /\ subs' = [subs EXCEPT ![s] = OnResolved(subs[s], r.value)]
    /\ UNCHANGED <<calls, argv, scriptPaths, bootsScripts, errors, ok,
                   checkModules, loadLog, streams>>

\* Rejected with this.ok left alone once the subscriber is closed.
RejectedUnlessClosed(s) ==
    /\ subs[s].phase = "running"
    /\ \E r \in RunResults(subs[s].units[subs[s].idx]) :
          /\ r.how = "rejected"
          /\ subs' = [subs EXCEPT ![s] = OnRejected(subs[s], r.value)]
    /\ ok' = IF subs[s].closed THEN ok ELSE FALSE
    /\ UNCHANGED <<calls, argv, scriptPaths, bootsScripts, errors,
                   checkModules, loadLog, streams>>

\* The promise returned by run() rejects and the final catch runs:
\* this.ok = false, then subscriber.error(...).
Rejected(s) ==
    /\ subs[s].phase = "running"
    /\ \E r \in RunResults(subs[s].units[subs[s].idx]) :
          /\ r.how = "rejected"
          /\ subs' = [subs EXCEPT ![s] = OnRejected(subs[s], r.value)]
    /\ ok' = FALSE
    /\ UNCHANGED <<calls, argv, scriptPaths, bootsScripts, errors,
                   checkModules, loadLog, streams>>

\* MayComplete with the final then attached after the final catch, so that
\* it also runs once the catch has handled a rejection.
MayCompleteAfterFailure(sub) ==
    \/ sub.phase = "chain" /\ sub.idx = Len(sub.units)
    \/ sub.phase = "failed"

\* MayComplete with the final then attached one task too early.
MayCompleteEarly(sub) ==
    sub.phase = "chain" /\ sub.idx >= Len(sub.units) - 1

\* The chain has run every task: its final then may run.
MayComplete(sub) == sub.phase = "chain" /\ sub.idx = Len(sub.units)

\* Complete recording the success in this.ok.
CompleteSetsOk(s) ==
    /\ MayComplete(subs[s])
    /\ ok' = TRUE
    /\ subs' = [subs EXCEPT ![s] =
                  [Deliver(subs[s], CompleteEvent, ok) EXCEPT !.phase = "completed"]]
    /\ UNCHANGED <<calls, argv, scriptPaths, bootsScripts, errors,
                   checkModules, loadLog, streams>>

\* The final then of the chain: subscriber.complete().
Complete(s) ==
    /\ MayComplete(subs[s])
    /\ subs' = [subs EXCEPT ![s] =
                  [Deliver(subs[s], CompleteEvent, ok) EXCEPT !.phase = "completed"]]
    /\ UNCHANGED <<calls, argv, scriptPaths, bootsScripts, errors, ok,
                   checkModules, loadLog, streams>>

\* The teardown function of _runScripts: empty ("teardown logic goes here").
Teardown(sub) == sub

\* subscription.unsubscribe(): the subscriber is closed and the teardown
\* runs; the promise chain is left alone.
Unsubscribe(s) ==
    /\ calls < MaxCalls
    /\ calls' = calls + 1
    /\ ~subs[s].unsubscribed
    /\ subs' = [subs EXCEPT ![s] =
                  [Teardown(subs[s]) EXCEPT
                      !.unsubscribed = TRUE, !.closed = TRUE,
                      !.cancelledAt = IF subs[s].phase = "running"
                                      THEN subs[s].idx ELSE 0]]
    /\ UNCHANGED <<argv, scriptPaths, bootsScripts, errors, ok, checkModules,
                   loadLog, streams>>

-----------------------------------------------------------------------------

Next ==
    \/ Go
    \/ \E i \in 1..Len(streams) : Subscribe(i)
    \/ \E s \in 1..Len(subs) : CallRun(s)
    \/ \E s \in 1..Len(subs) : Resolved(s)
    \/ \E s \in 1..Len(subs) : Rejected(s)
    \/ \E s \in 1..Len(subs) : Complete(s)
    \/ \E s \in 1..Len(subs) : Unsubscribe(s)

Spec == Init /\ [][Next]_vars

-----------------------------------------------------------------------------
(* Vocabulary of the properties *)

Subs == 1..Len(subs)

\* The subscriptions to an observable of _runScripts.
RunSubs == {s \in Subs : subs[s].kind = "runScripts"}

\* The names of the units in seq[1..n].
Prefix(seq, n) == SubSeq(seq, 1, n)

\* Events 1..n of a subscriber are the Outcomes of its units 1..n, in order.
OutcomesInOrder(sub, n) ==
    \A j \in 1..n :
        /\ sub.received[j].ev = "next"
        /\ sub.received[j].value.scriptName = sub.units[j]

\* The identifiers of the command line that resolve to a valid unit, and
\* the name of the unit each resolves to.
GoodIdentifiers == {"a", "r"}

UnitOf(id) == IF id = "a" THEN "A" ELSE "R"

RECURSIVE UnitsOf(_)
UnitsOf(ids) ==
    IF ids = <<>> THEN <<>>
    ELSE (IF Head(ids) \in GoodIdentifiers THEN <<UnitOf(Head(ids))>> ELSE <<>>)
         \o UnitsOf(Tail(ids))

HasBadIdentifier == \E i \in 1..Len(scriptPaths) : scriptPaths[i] \notin GoodIdentifiers

-----------------------------------------------------------------------------
(* C1 *)

\* C1: fail-fast on rejection. For a subscriber that has not unsubscribed:
\* when run() of unit k has rejected, the subscriber has received the
\* Outcomes of units 1..k-1 in order and then one error, and nothing else;
\* an error event is always the last event, it is the k-th event exactly
\* when unit k was the last unit started, and run() was called for units
\* 1..k only, so units k+1..n are never run.
C1FailFast ==
    \A s \in RunSubs :
        LET sub == subs[s] IN
        ~sub.unsubscribed =>
            /\ sub.phase = "failed" =>
                   /\ Len(sub.received) = sub.idx
                   /\ sub.received[sub.idx].ev = "error"
            /\ \A k \in 1..Len(sub.received) :
                   sub.received[k].ev = "error" =>
                       /\ k = Len(sub.received)
                       /\ OutcomesInOrder(sub, k - 1)
                       /\ sub.started = Prefix(sub.units, k)
                       /\ sub.phase = "failed"

\* Unit 2 of a list of at least 3 units rejected: one Outcome, then the error.
C1Witness ==
    \E s \in RunSubs :
        /\ subs[s].phase = "failed"
        /\ ~subs[s].unsubscribed
        /\ subs[s].idx = 2
        /\ Len(subs[s].units) >= 3
        /\ Len(subs[s].received) = 2

-----------------------------------------------------------------------------
(* C2 *)

\* C2: an Outcome with success = false is never delivered to a subscriber
\* as a normal next item (it ends the run like a rejection does).
C2FailedOutcomeNotEmitted ==
    \A s \in RunSubs :
        \A j \in 1..Len(subs[s].received) :
            subs[s].received[j].ev = "next" => subs[s].received[j].value.success

-----------------------------------------------------------------------------
(* C3 *)

NextEvents(sub) == SelectSeq(sub.received, LAMBDA e : e.ev = "next")

\* C3: within one subscription the units are started in list order and one
\* at a time: the units started are a prefix of the unit list, at most one
\* started run() has not settled, a run() is in flight exactly while the
\* chain is in its "running" phase, and (for a subscriber that has not
\* unsubscribed) every unit started before the latest one has had its
\* Outcome emitted.
C3OneAtATime ==
    \A s \in RunSubs :
        LET sub == subs[s]
            n == Len(sub.started)
        IN  /\ n <= Len(sub.units)
            /\ sub.started = Prefix(sub.units, n)
            /\ n - sub.settled \in {0, 1}
            /\ (sub.phase = "running") <=> (n - sub.settled = 1)
            /\ ~sub.unsubscribed =>
                   /\ Len(NextEvents(sub)) >= n - 1
                   /\ OutcomesInOrder(sub, n - 1)

\* The second unit of a subscription is in flight.
C3Witness ==
    \E s \in RunSubs :
        /\ subs[s].phase = "running"
        /\ Len(subs[s].started) = 2
        /\ subs[s].started[1] # subs[s].started[2]
        /\ ~subs[s].unsubscribed

-----------------------------------------------------------------------------
(* C4 *)

\* C4: on a fresh instance (one go() call before the subscription), for a
\* subscriber that has not unsubscribed: a completion signal is the last
\* event, it comes after exactly as many Outcomes as there are identifiers,
\* the i-th Outcome is that of the unit the i-th identifier resolved to,
\* and the chain that has completed has delivered the completion signal.
C4AllSucceed ==
    \A s \in RunSubs :
        LET sub == subs[s]
            n == Len(scriptPaths)
        IN  (sub.gos = 1 /\ ~sub.unsubscribed) =>
            /\ sub.phase = "completed" =>
                   /\ Len(sub.received) = n + 1
                   /\ sub.received[n + 1].ev = "complete"
            /\ \A k \in 1..Len(sub.received) :
                   sub.received[k].ev = "complete" =>
                       /\ k = Len(sub.received)
                       /\ k = n + 1
                       /\ \A i \in 1..n :
                              /\ sub.received[i].ev = "next"
                              /\ sub.received[i].value.scriptName = UnitOf(scriptPaths[i])

\* Two different units ran successfully and the stream completed.
C4Witness ==
    \E s \in RunSubs :
        /\ subs[s].gos = 1
        /\ ~subs[s].unsubscribed
        /\ subs[s].phase = "completed"
        /\ Len(subs[s].received) = 3
        /\ subs[s].received[1].value.success
        /\ subs[s].received[2].value.success
        /\ subs[s].received[1].value.scriptName # subs[s].received[2].value.scriptName

-----------------------------------------------------------------------------
(* C5 *)

\* C5: when the identifier sequence holds an unresolvable or wrong-shape
\* identifier, every go() has returned the failing stream, ok is false, no
\* subscription has run a unit or received an Outcome, and every subscriber
\* has received the load failure and nothing else.
C5NeverSequenced ==
    (Len(streams) >= 1 /\ HasBadIdentifier) =>
        /\ ok = FALSE
        /\ \A i \in 1..Len(streams) : streams[i] = "throwLoadError"
        /\ \A s \in Subs :
               /\ subs[s].started = <<>>
               /\ subs[s].received = <<ErrorEvent(LoadErrorMessage, NoValue)>>

\* A good and a bad identifier were given, a unit was loaded, and a
\* subscriber got the failure.
C5Witness ==
    /\ HasBadIdentifier
    /\ bootsScripts # <<>>
    /\ \E s \in Subs : subs[s].received # <<>>

-----------------------------------------------------------------------------
(* C6 *)

Range(seq) == {seq[i] : i \in 1..Len(seq)}

\* The identifier a path of a report was made from: itself, or the
\* identifier that was joined onto baseUrl.
IdentifierOfPath(path) ==
    IF path \in Identifiers THEN path
    ELSE CHOOSE id \in Identifiers : PathJoin(baseUrl, id) = path

\* The identifier a loaded unit came from.
IdentifierOfUnit(name) == CHOOSE id \in GoodIdentifiers : UnitOf(id) = name

RECURSIVE IdentifiersOfPaths(_)
IdentifiersOfPaths(paths) ==
    IF paths = <<>> THEN <<>>
    ELSE <<IdentifierOfPath(Head(paths))>> \o IdentifiersOfPaths(Tail(paths))

RECURSIVE IdentifiersOfUnits(_)
IdentifiersOfUnits(units) ==
    IF units = <<>> THEN <<>>
    ELSE <<IdentifierOfUnit(Head(units))>> \o IdentifiersOfUnits(Tail(units))

\* The identifiers of `ids` that are in `set`, in the order of `ids`.
Those(ids, set) == SelectSeq(ids, LAMBDA id : id \in set)

\* C6: after the first go() that called _loadModules, every identifier is
\* in exactly one of the unit list, cantResolve and wrongType (the three
\* hold as many entries as there are identifiers, and no identifier is in
\* two of them), each of the three lists its identifiers in input order,
\* and the report is ok exactly when cantResolve and wrongType are empty.
C6ExhaustiveResolution ==
    (Len(streams) = 1 /\ scriptPaths # <<>>) =>
        LET U == IdentifiersOfUnits(bootsScripts)
            C == IdentifiersOfPaths(checkModules.cantResolve)
            W == IdentifiersOfPaths(checkModules.wrongType)
        IN  /\ Len(U) + Len(C) + Len(W) = Len(scriptPaths)
            /\ Range(U) \cap Range(C) = {}
            /\ Range(U) \cap Range(W) = {}
            /\ Range(C) \cap Range(W) = {}
            /\ U = Those(scriptPaths, Range(U))
            /\ C = Those(scriptPaths, Range(C))
            /\ W = Those(scriptPaths, Range(W))
            /\ checkModules.ok <=>
                   (checkModules.cantResolve = <<>> /\ checkModules.wrongType = <<>>)

\* A bad identifier came first and a good one after it, and both were
\* processed.
C6Witness ==
    /\ Len(streams) = 1
    /\ Len(scriptPaths) = 2
    /\ scriptPaths[1] \notin GoodIdentifiers
    /\ scriptPaths[2] \in GoodIdentifiers
    /\ Len(bootsScripts) = 1

-----------------------------------------------------------------------------
(* C7 *)

\* C7: when the identifier sequence read from the command line is empty,
\* every go() has set ok to false and returned the stream that fails with
\* the "no script paths" message, no module load was attempted, the unit
\* list is empty, and every subscriber has received that failure at once
\* and has run nothing.
C7NoScriptPaths ==
    (Len(streams) >= 1 /\ scriptPaths = <<>>) =>
        /\ ok = FALSE
        /\ \A i \in 1..Len(streams) : streams[i] = "throwNoPaths"
        /\ \A i \in 1..Len(loadLog) : loadLog[i] = <<>>
        /\ bootsScripts = <<>>
        /\ \A s \in Subs :
               /\ subs[s].started = <<>>
               /\ subs[s].received = <<ErrorEvent(NoPathsMessage, NoValue)>>

\* A command line with arguments but no script path, go() called and
\* subscribed to.
C7Witness ==
    /\ Len(streams) >= 1
    /\ scriptPaths = <<>>
    /\ argv # <<>>
    /\ \E s \in Subs : subs[s].received # <<>>

-----------------------------------------------------------------------------
(* C8 *)

\* C8: ok is true at construction, and no step of the instance or of its
\* subscriptions sets ok back to true once it is false.
C8OkMonotone == (ok = TRUE) /\ [][(ok = FALSE) => (ok' = FALSE)]_vars

\* ok is false and a subscription has completed successfully since.
C8Witness ==
    /\ ~ok
    /\ \E s \in RunSubs : subs[s].phase = "completed" /\ ~subs[s].unsubscribed
    /\ \E s \in RunSubs : subs[s].phase = "failed"

-----------------------------------------------------------------------------
(* C9 *)

\* C9 as claimed: after the first go(), a report that is not ok leaves the
\* unit list empty, and a report that is ok leaves as many units as there
\* are identifiers.
C9UnitsEmptyUnlessOk ==
    Len(streams) = 1 =>
        IF checkModules.ok THEN Len(bootsScripts) = Len(scriptPaths)
        ELSE bootsScripts = <<>>

\* C9 as amended: after the first go(), the unit list holds the units of
\* exactly the identifiers that resolved and validated, in input order,
\* whether or not the report is ok; its length equals the number of
\* identifiers if and only if the report is ok; and when the report is not
\* ok no subscription runs any of the units.
C9UnitsOfGoodIdentifiers ==
    (Len(streams) = 1 /\ scriptPaths # <<>>) =>
        /\ bootsScripts = UnitsOf(scriptPaths)
        /\ (Len(bootsScripts) = Len(scriptPaths)) <=> checkModules.ok
        /\ ~checkModules.ok => \A s \in Subs : subs[s].started = <<>>

\* The report is not ok and the unit list is not empty.
C9Witness ==
    /\ Len(streams) = 1
    /\ ~checkModules.ok
    /\ bootsScripts # <<>>
    /\ subs # <<>>

-----------------------------------------------------------------------------
(* C10 *)

\* C10: cancellation stops scheduling: when a subscriber has unsubscribed
\* while unit i was in flight, run() has been called for units 1..i and
\* for no later unit.
C10CancellationStopsScheduling ==
    \A s \in RunSubs :
        subs[s].cancelledAt > 0 => Len(subs[s].started) = subs[s].cancelledAt

-----------------------------------------------------------------------------
(* C11 *)

\* The subscriptions whose chain has a run() in flight.
InFlight == {s \in RunSubs : subs[s].phase = "running"}

\* C11: no two units of one Boots instance are ever in flight at the same
\* time, whatever the number of go() calls and of subscriptions.
C11NoTwoInFlight == Cardinality(InFlight) <= 1

-----------------------------------------------------------------------------
(* C12 *)

\* The message of the terminal failure of a unit named `name` that
\* rejected with `value`, when it names the unit that was running.
MessageNamingUnit(name, value) ==
    ScriptErrorMessage([value EXCEPT !.scriptName = name])

\* C12: the terminal failure delivered when run() of unit k has failed
\* names unit k, whatever value the unit rejected with, and carries the
\* error payload of that value.
C12FailureNamesUnit ==
    \A s \in RunSubs :
        \A j \in 1..Len(subs[s].received) :
            subs[s].received[j].ev = "error" =>
                subs[s].received[j].text =
                    MessageNamingUnit(subs[s].units[subs[s].idx],
                                      subs[s].received[j].value)

-----------------------------------------------------------------------------
(* C13 *)

\* The identifiers whose module loads (directly or below baseUrl) and
\* whose default export fails the capability check: run not callable (x),
\* empty name (w), no default export at all (d).
WrongShapeIdentifiers == {"x", "w", "d"}

\* C13: after go(), each identifier whose module loaded and whose default
\* export fails the capability check is recorded in wrongType and not in
\* cantResolve, no unit was appended for it, the report is not ok and no
\* subscriber has received an Outcome.
C13WrongShapeRecorded ==
    Len(streams) >= 1 =>
        \A i \in 1..Len(scriptPaths) :
            scriptPaths[i] \in WrongShapeIdentifiers =>
                /\ scriptPaths[i] \in Range(IdentifiersOfPaths(checkModules.wrongType))
                /\ scriptPaths[i] \notin Range(IdentifiersOfPaths(checkModules.cantResolve))
                /\ ~checkModules.ok
                /\ bootsScripts = UnitsOf(scriptPaths)
                /\ \A s \in Subs : NextEvents(subs[s]) = <<>>

-----------------------------------------------------------------------------
(* C14 *)

Terminal(event) == event.ev \in {"error", "complete"}

\* The chain of the subscription has made its terminal call on the
\* subscriber (or the subscriber is one of throwError).
Ended(sub) == sub.phase \in {"completed", "failed", "thrown"}

\* C14: a subscription receives at most one terminal event (an error or a
\* completion) and nothing after it: a terminal event is always the last
\* event received; and a chain that has made its terminal call makes no
\* further call on the subscriber: its subscription stays ended as it
\* ended, with the same events.
C14OneTerminalEvent ==
    /\ [](\A s \in Subs :
             \A k \in 1..Len(subs[s].received) :
                 Terminal(subs[s].received[k]) => k = Len(subs[s].received))
    /\ [][\A s \in Subs :
             Ended(subs[s]) =>
                 /\ subs'[s].phase = subs[s].phase
                 /\ subs'[s].received = subs[s].received]_vars

\* A subscriber got an Outcome and then the error, and unsubscribed after
\* that.
C14Witness ==
    \E s \in RunSubs :
        /\ Len(subs[s].received) = 2
        /\ subs[s].received[1].ev = "next"
        /\ subs[s].received[2].ev = "error"
        /\ subs[s].unsubscribed

-----------------------------------------------------------------------------
(* C15 *)

LastEvent(sub) == sub.received[Len(sub.received)]

\* C15: whenever an error handler is called (for the configuration, the
\* resolution or an execution failure), ok is already false; and with one
\* go() call and one subscription, ok is still true when the completion
\* handler is called.
C15StatusPrecedesSignal ==
    \A s \in Subs :
        subs[s].received # <<>> =>
            /\ LastEvent(subs[s]).ev = "error" => subs[s].okSeen = FALSE
            /\ (LastEvent(subs[s]).ev = "complete" /\ Len(streams) = 1 /\ Len(subs) = 1)
                   => subs[s].okSeen = TRUE

\* The only subscription of an instance got an execution failure while ok
\* had been true until then.
C15Witness ==
    /\ Len(subs) = 1
    /\ subs[1].kind = "runScripts"
    /\ subs[1].received # <<>>
    /\ LastEvent(subs[1]).ev = "error"
    /\ subs[1].okSeen = FALSE

-----------------------------------------------------------------------------
(* C16 *)

\* C16: every entry of the report's cantResolve and wrongType is one of
\* the identifiers that were given, unmodified.
C16ReportHoldsIdentifiers ==
    Len(streams) >= 1 =>
        Range(checkModules.cantResolve) \cup Range(checkModules.wrongType)
            \subseteq Range(scriptPaths)

-----------------------------------------------------------------------------
(* C17 *)

\* The require() calls of two-step resolution for the identifiers `ids`:
\* the identifier itself, then the identifier joined onto baseUrl if and
\* only if the first load raised.
RECURSIVE TwoStepLoads(_)
TwoStepLoads(ids) ==
    IF ids = <<>> THEN <<>>
    ELSE (IF Head(ids) \in Loadable THEN <<Head(ids)>>
          ELSE <<Head(ids), PathJoin(baseUrl, Head(ids))>>)
         \o TwoStepLoads(Tail(ids))

\* Both load attempts for the identifier raise.
BothLoadsRaise(id) == id \notin Loadable /\ PathJoin(baseUrl, id) \notin Loadable

\* C17: every go() that resolves makes exactly the require() calls of
\* two-step resolution (direct load first, the joined load if and only if
\* the direct load raised, so at most two per identifier), and an
\* identifier is recorded as unresolvable if and only if both of its load
\* attempts raised.
C17TwoStepResolution ==
    (Len(streams) >= 1 /\ scriptPaths # <<>>) =>
        /\ \A g \in 1..Len(loadLog) : loadLog[g] = TwoStepLoads(scriptPaths)
        /\ \A i \in 1..Len(scriptPaths) :
               (scriptPaths[i] \in Range(IdentifiersOfPaths(checkModules.cantResolve)))
                   <=> BothLoadsRaise(scriptPaths[i])

-----------------------------------------------------------------------------
(* C18 *)

\* This step is a go() call whose resolution fails.
GoFailsResolution ==
    /\ Len(streams') = Len(streams) + 1
    /\ streams'[Len(streams')] = "throwLoadError"

\* 1 if the sequence is non-empty, 0 if it is empty.
OneIfNonEmpty(seq) == IF seq = <<>> THEN 0 ELSE 1

\* C18: no step removes or changes an entry of the diagnostics list, and
\* a go() call whose resolution fails adds exactly one entry per non-empty
\* field of its report: one about cantResolve if it is non-empty, then one
\* about wrongType if it is non-empty, so one or two entries.
C18DiagnosticsOnlyGrow ==
    [][/\ Len(errors') >= Len(errors)
       /\ Prefix(errors', Len(errors)) = errors
       /\ GoFailsResolution =>
            LET gained == SubSeq(errors', Len(errors) + 1, Len(errors'))
                c == OneIfNonEmpty(checkModules'.cantResolve)
                w == OneIfNonEmpty(checkModules'.wrongType)
            IN  /\ Len(gained) = c + w
                /\ Len(gained) \in {1, 2}
                /\ c = 1 => /\ gained[1].about = "cantResolve"
                            /\ gained[1].paths = checkModules'.cantResolve
                /\ w = 1 => /\ gained[c + 1].about = "wrongType"
                            /\ gained[c + 1].paths = checkModules'.wrongType
      ]_vars

\* Two go() calls have failed resolution with both report fields non-empty.
C18Witness ==
    /\ Len(streams) = 2
    /\ checkModules.cantResolve # <<>>
    /\ checkModules.wrongType # <<>>
    /\ Len(errors) = 4

-----------------------------------------------------------------------------
(* C19 *)

\* The sequence seq, m times over.
RECURSIVE Repeat(_, _)
Repeat(seq, m) == IF m = 0 THEN <<>> ELSE seq \o Repeat(seq, m - 1)

\* C19: when every identifier given is valid, after m go() calls the unit
\* list holds the units of the identifiers m times over (m*n units for n
\* identifiers), a subscription made after the m-th call runs over that
\* whole list, and when it has completed it has called run() of each
\* original unit m times.
C19UnitListNeverReset ==
    (Len(streams) >= 1 /\ scriptPaths # <<>> /\ ~HasBadIdentifier) =>
        /\ bootsScripts = Repeat(UnitsOf(scriptPaths), Len(streams))
        /\ Len(bootsScripts) = Len(streams) * Len(scriptPaths)
        /\ \A s \in RunSubs :
              /\ subs[s].units = Repeat(UnitsOf(scriptPaths), subs[s].gos)
              /\ subs[s].phase = "completed" => subs[s].started = subs[s].units

\* A subscription made after the second go() has completed, having called
\* run() of the one unit twice.
C19Witness ==
    /\ Len(streams) = 2
    /\ Len(scriptPaths) = 1
    /\ \E s \in RunSubs :
          /\ subs[s].gos = 2
          /\ subs[s].phase = "completed"
          /\ Len(subs[s].started) = 2
          /\ subs[s].started[1] = subs[s].started[2]

-----------------------------------------------------------------------------
(* C20 *)

\* C20: a unit that rejects sets ok to false whether or not the subscriber
\* has unsubscribed, and a subscriber that unsubscribed while unit k was in
\* flight has received the Outcomes of units 1..k-1 and nothing since:
\* neither an Outcome nor a terminal event.
C20StatusSurvivesCancellation ==
    \A s \in RunSubs :
        /\ subs[s].phase = "failed" => ok = FALSE
        /\ subs[s].cancelledAt > 0 =>
              /\ Len(subs[s].received) = subs[s].cancelledAt - 1
              /\ OutcomesInOrder(subs[s], subs[s].cancelledAt - 1)

\* A unit rejected after the subscriber had unsubscribed mid-run: ok is
\* false and the subscriber was never told of a failure.
C20Witness ==
    \E s \in RunSubs :
        /\ subs[s].cancelledAt > 0
        /\ subs[s].phase = "failed"
        /\ ok = FALSE
        /\ \A j \in 1..Len(subs[s].received) : subs[s].received[j].ev = "next"

====
